---- MODULE Spec2Model ----
(***************************************************************************)
(* SmartBudget: the DuckDB store written by the ETL stages (etl/seed.py,   *)
(* etl/ingest.py, etl/transform.py, etl/scoring.py, etl/recommendations.py)*)
(* and by the label lifecycle script (scripts/migrate_tags.py).            *)
(*                                                                         *)
(* Every table is a set of records, one record per row; a primary key or   *)
(* UNIQUE constraint is enforced where the SQL enforces it (ON CONFLICT    *)
(* clauses, constraint errors), never by the representation.               *)
(*                                                                         *)
(* Numbers: weights are held in tenths (0.5 -> 5, 1.5 -> 15, 0.8 -> 8),    *)
(* amounts in whole currency units.  Timestamps are instants 0, 1, 2, ...  *)
(* of the clock `now`.                                                     *)
(***************************************************************************)
EXTENDS Integers, FiniteSets, Sequences, TLC

VARIABLES
    now,                 \* the wall clock read by NOW() / datetime.now()
    hashSeed,            \* string-hash seed of the running Python process
    tables_created,      \* TRUE once seed_database has created the schema
    raw_source_google,   \* table raw_source_google
    expenses,            \* table expenses
    expense_labels,      \* table expense_labels
    labels,              \* table labels
    label_weights,       \* table label_weights
    category_mappings,   \* table category_mappings
    unmapped_categories, \* table unmapped_categories
    recommendations,     \* table recommendations
    last,                \* the last call: operation, arguments, outcome
    runs                 \* the pipeline runs that share the store: position, hash seed

tables == <<raw_source_google, expenses, expense_labels, labels, label_weights,
            category_mappings, unmapped_categories, recommendations>>

vars == <<now, hashSeed, tables_created, raw_source_google, expenses,
          expense_labels, labels, label_weights, category_mappings,
          unmapped_categories, recommendations, last, runs>>

\* SQL NULL: in a numeric or timestamp column, and in a VARCHAR column (the
\* NaN pandas reads from an empty CSV cell arrives in DuckDB as NULL).
NULL == 0 - 1
NULL_VARCHAR == "<NULL>"

----------------------------------------------------------------------------
(* Bounds of the model. *)

MaxTime == 3        \* the clock stops at instant MaxTime
MaxRows == 2        \* a CSV file has at most MaxRows data rows
NumHashSeeds == 2   \* distinct per-process string-hash seeds considered

----------------------------------------------------------------------------
(* The record of a call kept in `last`. *)

Call(op, err, names, target, ids) ==
    [op |-> op, err |-> err, names |-> names, target |-> target, ids |-> ids]

----------------------------------------------------------------------------
(* etl/seed.py *)

\* INSERT INTO categories ... is reference data no stage reads; the three
\* category ids appear only through category_mappings.
SeedCategoryMappings ==
    { [source_system |-> "google_sheets", raw_value |-> "supermarket", category_id |-> 1],
      [source_system |-> "google_sheets", raw_value |-> "groceries",   category_id |-> 1],
      [source_system |-> "google_sheets", raw_value |-> "restaurant",  category_id |-> 2],
      [source_system |-> "google_sheets", raw_value |-> "uber",        category_id |-> 3] }

SeedLabels ==
    { [label_id |-> 101, name |-> "essential"],
      [label_id |-> 102, name |-> "discretionary"],
      [label_id |-> 103, name |-> "work"] }

\* VALUES (101, 0.5, NOW()), (102, 1.5, NOW()), (103, 0.8, NOW()): effective_to
\* is not listed, so it is NULL.
SeedLabelWeights(t) ==
    { [label_id |-> 101, weight |-> 5,  effective_from |-> t, effective_to |-> NULL],
      [label_id |-> 102, weight |-> 15, effective_from |-> t, effective_to |-> NULL],
      [label_id |-> 103, weight |-> 8,  effective_from |-> t, effective_to |-> NULL] }

\* INSERT INTO category_mappings ... ON CONFLICT DO NOTHING,
\* PRIMARY KEY (source_system, raw_value)
InsertCategoryMappings(tbl, rows) ==
    tbl \cup { r \in rows :
                 ~ \E x \in tbl : /\ x.source_system = r.source_system
                                  /\ x.raw_value = r.raw_value }

\* INSERT INTO labels (label_id, name) ... ON CONFLICT DO NOTHING: a row is
\* dropped when it collides on PRIMARY KEY label_id or on UNIQUE name.
InsertLabels(tbl, rows) ==
    tbl \cup { r \in rows :
                 ~ \E x \in tbl : x.label_id = r.label_id \/ x.name = r.name }

\* INSERT INTO label_weights ... ON CONFLICT DO NOTHING,
\* PRIMARY KEY (label_id, effective_from)
InsertLabelWeights(tbl, rows) ==
    tbl \cup { r \in rows :
                 ~ \E x \in tbl : /\ x.label_id = r.label_id
                                  /\ x.effective_from = r.effective_from }

seed_database ==
    /\ tables_created' = TRUE
    /\ category_mappings' = InsertCategoryMappings(category_mappings, SeedCategoryMappings)
    /\ labels' = InsertLabels(labels, SeedLabels)
    /\ label_weights' = InsertLabelWeights(label_weights, SeedLabelWeights(now))
    /\ last' = Call("seed_database", "ok", {}, NULL_VARCHAR, {})
    /\ UNCHANGED <<runs, now, hashSeed, raw_source_google, expenses, expense_labels,
                   unmapped_categories, recommendations>>

----------------------------------------------------------------------------
(* etl/ingest.py *)

\* The input alphabet of the CSV files; each specification below draws its
\* files from rows over these values and a few raw categories.
RawPrices == {0, 100}
RawItems == {"milk"}

\* Faulty variant: keep_default_na=False, an empty cell stays an empty text.
ReadCsvCell_KeepsText(s) == s

\* pd.read_csv with its default na_values: an empty cell, and a cell holding
\* one of the NA spellings, is read as NaN, which DuckDB stores as NULL.  Every
\* other text is kept as it is.
ReadCsvCell(s) ==
    IF s \in {"", "NA", "NULL", "NaN", "null", "None", "n/a"} THEN NULL_VARCHAR ELSE s

\* df.reset_index(); rename index -> id: the rows are numbered 0 .. n-1.
\* df['ingested_at'] = datetime.now().
\* CREATE OR REPLACE TABLE raw_source_google AS SELECT * FROM df: the table
\* is replaced, not appended to.  The columns compared with VARCHAR columns
\* are taken to be typed VARCHAR.
IngestedRows(csv, t) ==
    { [id |-> i - 1, ingested_at |-> t, date |-> csv[i].date,
       item |-> ReadCsvCell(csv[i].item),
       category |-> ReadCsvCell(csv[i].category), price |-> csv[i].price,
       notes |-> ReadCsvCell(csv[i].notes)]
      : i \in 1..Len(csv) }

ingest_csv(csv) ==
    /\ raw_source_google' = IngestedRows(csv, now)
    /\ last' = Call("ingest_csv", "ok", {}, NULL_VARCHAR, {})
    /\ UNCHANGED <<runs, now, hashSeed, tables_created, expenses, expense_labels, labels,
                   label_weights, category_mappings, unmapped_categories,
                   recommendations>>

----------------------------------------------------------------------------
(* etl/transform.py *)

\* strptime(raw.date, '%Y-%m-%d')::TIMESTAMP over the date strings of the
\* input alphabet; an instant is a month counted from 2024-01.
Strptime(s) ==
    CASE s = "2024-01-15" -> 0
      [] s = "2024-02-15" -> 1
      [] s = "2024-03-15" -> 2

\* abs(hash(raw.id::VARCHAR)): DuckDB's hash is a fixed function of the
\* value; it is taken to be free of collisions on the row ids in use.
ExpenseId(id) == ((id + 1) * 37 + 11) % 101

\* raw LEFT JOIN category_mappings cm ON raw.category = cm.raw_value
\*   AND cm.source_system = 'google_sheets': cm.category_id, NULL without a
\* match (a NULL category matches nothing).
MappedCategoryId(mappings, category) ==
    IF \E m \in mappings : m.source_system = "google_sheets" /\ m.raw_value = category
    THEN (CHOOSE m \in mappings :
              m.source_system = "google_sheets" /\ m.raw_value = category).category_id
    ELSE NULL

SetMin(S) == CHOOSE x \in S : \A y \in S : x <= y

\* Statement 1: the unmapped raw categories, one row per category with
\* MIN(ingested_at), ON CONFLICT (raw_value, source_system) DO NOTHING.
UnmappedRows(raw, mappings) ==
    { [raw_value |-> c, source_system |-> "google_sheets",
       first_seen_at |-> SetMin({ r.ingested_at : r \in { x \in raw : x.category = c } })]
      : c \in { r.category : r \in { x \in raw :
                    /\ x.category # NULL_VARCHAR
                    /\ MappedCategoryId(mappings, x.category) = NULL } } }

\* Faulty variant: the conflict clause overwrites the row that exists.
InsertUnmapped_Overwrites(tbl, rows) ==
    rows \cup { x \in tbl :
                  ~ \E r \in rows : /\ x.raw_value = r.raw_value
                                    /\ x.source_system = r.source_system }

InsertUnmapped(tbl, rows) ==
    tbl \cup { r \in rows :
                 ~ \E x \in tbl : /\ x.raw_value = r.raw_value
                                  /\ x.source_system = r.source_system }

\* Statement 2: the SELECT list of the INSERT INTO expenses.
ExpenseOfRaw(r, mappings) ==
    [expense_id      |-> ExpenseId(r.id),
     occurred_at     |-> Strptime(r.date),
     product_name    |-> r.item,
     quantity        |-> 1,
     unit_price      |-> r.price,
     amount          |-> r.price,
     category_id     |-> MappedCategoryId(mappings, r.category),
     payment_mode_id |-> NULL,
     notes           |-> r.notes,
     source_system   |-> "google_sheets",
     source_row_id   |-> r.id]

\* Faulty variant: the conflict clause leaves category_id out of the SET list.
UpsertExpenses_KeepsCategory(tbl, rows) ==
    { IF \E n \in rows : n.expense_id = e.expense_id
      THEN LET n == CHOOSE x \in rows : x.expense_id = e.expense_id
           IN  [e EXCEPT !.occurred_at = n.occurred_at,
                         !.product_name = n.product_name,
                         !.amount = n.amount]
      ELSE e
      : e \in tbl }
    \cup { n \in rows : ~ \E e \in tbl : e.expense_id = n.expense_id }

\* Faulty variant: a plain INSERT, no conflict clause.
UpsertExpenses_NoConflictClause(tbl, rows) == tbl \cup rows

\* Faulty variant: the expenses table is made equal to the batch.
UpsertExpenses_SyncsToBatch(tbl, rows) == rows

\* Faulty variant: INSERT OR REPLACE, the conflicting row is replaced whole.
UpsertExpenses_ReplacesRow(tbl, rows) ==
    rows \cup { e \in tbl : ~ \E n \in rows : n.expense_id = e.expense_id }

\* ON CONFLICT (expense_id) DO UPDATE SET occurred_at, product_name, amount,
\* category_id = excluded.*
UpsertExpenses(tbl, rows) ==
    { IF \E n \in rows : n.expense_id = e.expense_id
      THEN LET n == CHOOSE x \in rows : x.expense_id = e.expense_id
           IN  [e EXCEPT !.occurred_at = n.occurred_at,
                         !.product_name = n.product_name,
                         !.amount = n.amount,
                         !.category_id = n.category_id]
      ELSE e
      : e \in tbl }
    \cup { n \in rows : ~ \E e \in tbl : e.expense_id = n.expense_id }

\* Statement 3: label 101 for category 1, label 102 for category 2,
\* ON CONFLICT DO NOTHING on PRIMARY KEY (expense_id, label_id).  A set
\* union drops exactly the rows that collide on the whole key.
DefaultLabels(exps) ==
    { [expense_id |-> e.expense_id, label_id |-> 101] : e \in { x \in exps : x.category_id = 1 } }
    \cup
    { [expense_id |-> e.expense_id, label_id |-> 102] : e \in { x \in exps : x.category_id = 2 } }

TransformUnmapped(raw, mappings, unmapped) ==
    InsertUnmapped(unmapped, UnmappedRows(raw, mappings))

TransformExpenses(raw, mappings, exps) ==
    UpsertExpenses(exps, { ExpenseOfRaw(r, mappings) : r \in raw })

TransformLabels(exps, els) == els \cup DefaultLabels(exps)

\* strptime raises a conversion error on a text that is not a %Y-%m-%d date.
ParsesAsDate(s) == s \in {"2024-01-15", "2024-02-15", "2024-03-15"}

\* The outcome of statement 2.  No row is checked before the INSERT: a date
\* that does not parse fails the whole statement, a NULL date or item
\* violates NOT NULL of occurred_at or product_name and fails it as well.
TransformError(raw) ==
    IF \E r \in raw : r.date # NULL_VARCHAR /\ ~ ParsesAsDate(r.date)
    THEN "ConversionError"
    ELSE IF \E r \in raw : r.date = NULL_VARCHAR \/ r.item = NULL_VARCHAR
    THEN "ConstraintError"
    ELSE "ok"

\* Each statement is committed on its own: when statement 2 raises, the rows
\* of statement 1 stay, no expense of the batch is stored and statement 3 is
\* not reached.
transform_and_load ==
    LET err == TransformError(raw_source_google)
    IN  /\ tables_created
        /\ unmapped_categories' =
               TransformUnmapped(raw_source_google, category_mappings, unmapped_categories)
        /\ expenses' = IF err = "ok"
                       THEN TransformExpenses(raw_source_google, category_mappings, expenses)
                       ELSE expenses
        /\ expense_labels' = IF err = "ok"
                             THEN TransformLabels(expenses', expense_labels)
                             ELSE expense_labels
        /\ last' = Call("transform_and_load", err, {}, NULL_VARCHAR, {})
        /\ UNCHANGED <<runs, now, hashSeed, tables_created, raw_source_google, labels,
                       label_weights, category_mappings, recommendations>>

----------------------------------------------------------------------------
(* etl/scoring.py *)

RECURSIVE Pow(_, _)
Pow(b, n) == IF n = 0 THEN 1 ELSE b * Pow(b, n - 1)

RECURSIVE Sum(_, _)
Sum(f, S) == IF S = {} THEN 0
             ELSE LET x == CHOOSE y \in S : TRUE IN f[x] + Sum(f, S \ {x})

\* DATE_DIFF('month', e.occurred_at, NOW()); an instant is a month.
MonthDiff(occurred_at, t) == t - occurred_at

\* CTE scored_labels: expense_labels JOIN expenses JOIN label_weights
\* WHERE lw.effective_to IS NULL.  The joined keys are kept in the row so that
\* two joined rows with equal values stay two rows.
ScoredLabels(exps, els, lws, t) ==
    { [expense_id |-> el.expense_id, label_id |-> el.label_id,
       effective_from |-> lw.effective_from, amount |-> e.amount,
       weight |-> lw.weight, month_diff |-> MonthDiff(e.occurred_at, t)]
      : <<el, e, lw>> \in
          { x \in els \X exps \X lws :
              /\ x[1].expense_id = x[2].expense_id
              /\ x[1].label_id = x[3].label_id
              /\ x[3].effective_to = NULL } }

\* Faulty variant: a decay base of 0.5 instead of 0.6.
Contribution_HalfLife(r) ==
    r.amount * r.weight * Pow(5, r.month_diff) * Pow(10, MaxTime - r.month_diff)

\* amount * weight * POWER(0.6, month_diff), in units of 10^-(MaxTime+1):
\* weight is in tenths and 0.6^m = 6^m * 10^(MaxTime-m) / 10^MaxTime.
Contribution(r) ==
    r.amount * r.weight * Pow(6, r.month_diff) * Pow(10, MaxTime - r.month_diff)

\* CTE priority_scores: SUM(...) GROUP BY expense_id
PriorityScores(exps, els, lws, t) ==
    LET sl == ScoredLabels(exps, els, lws, t)
    IN  { [expense_id |-> id,
           priority_score |->
               LET rows == { r \in sl : r.expense_id = id }
               IN  Sum([r \in rows |-> Contribution(r)], rows)]
          : id \in { r.expense_id : r \in sl } }

\* One unit of priority_score as Contribution counts it.
ScoreUnit == Pow(10, MaxTime + 1)

SetMax(S) == CHOOSE x \in S : \A y \in S : x >= y

\* num / den > a / b, for b > 0 and den # 0
QuotientGreater(num, den, a, b) ==
    IF den > 0 THEN num * b > a * den ELSE num * b < a * den

\* CASE WHEN score_norm > 0.7 THEN 'High' WHEN score_norm > 0.4 THEN 'Medium'
\* ELSE 'Low'.  A zero maximum makes the quotient NULL, no comparison with
\* NULL is true and the row is 'Low'.
ScoreBucket(priority_score, max_val) ==
    IF max_val = 0 THEN "Low"
    ELSE IF QuotientGreater(priority_score, max_val, 7, 10) THEN "High"
    ELSE IF QuotientGreater(priority_score, max_val, 4, 10) THEN "Medium"
    ELSE "Low"

\* The final SELECT: priority_scores ps, max_score ms.  score_norm is the
\* quotient priority_score / max_val, kept as the pair <<priority_score,
\* max_val>>; it is NULL when max_val is zero.
ExpenseScores(exps, els, lws, t) ==
    LET ps == PriorityScores(exps, els, lws, t)
    IN  { [expense_id |-> p.expense_id,
           priority_score |-> p.priority_score,
           score_norm |-> <<p.priority_score,
                            SetMax({ q.priority_score : q \in ps })>>,
           score_priority_bucket |->
               ScoreBucket(p.priority_score, SetMax({ q.priority_score : q \in ps }))]
          : p \in ps }

\* The view expense_scores is a TEMP VIEW of a connection that is closed
\* right after: the call leaves nothing behind in the store.
calculate_scores ==
    /\ tables_created
    /\ last' = Call("calculate_scores", "ok", {}, NULL_VARCHAR, {})
    /\ UNCHANGED <<runs, now, hashSeed, tables_created, tables>>

----------------------------------------------------------------------------
(* etl/recommendations.py *)

\* CTE expense_scores: expenses LEFT JOIN expense_labels LEFT JOIN
\* label_weights, no filter on effective_to.  weight is COALESCE(lw.weight,
\* 1.0) in tenths, score is amount * weight in tenths.
RecJoinedRows(exps, els, lws) ==
    { [expense_id |-> e.expense_id, amount |-> e.amount,
       product_name |-> e.product_name,
       label_id |-> el.label_id, effective_from |-> lw.effective_from,
       effective_to |-> lw.effective_to,
       weight |-> lw.weight, score |-> e.amount * lw.weight]
      : <<e, el, lw>> \in
          { x \in exps \X els \X lws :
              /\ x[1].expense_id = x[2].expense_id
              /\ x[2].label_id = x[3].label_id } }

RecLabelOnlyRows(exps, els, lws) ==
    { [expense_id |-> e.expense_id, amount |-> e.amount,
       product_name |-> e.product_name,
       label_id |-> el.label_id, effective_from |-> NULL, effective_to |-> NULL,
       weight |-> 10, score |-> e.amount * 10]
      : <<e, el>> \in
          { x \in exps \X els :
              /\ x[1].expense_id = x[2].expense_id
              /\ ~ \E lw \in lws : lw.label_id = x[2].label_id } }

RecBareRows(exps, els) ==
    { [expense_id |-> e.expense_id, amount |-> e.amount,
       product_name |-> e.product_name,
       label_id |-> NULL, effective_from |-> NULL, effective_to |-> NULL,
       weight |-> 10, score |-> e.amount * 10]
      : e \in { x \in exps : ~ \E el \in els : el.expense_id = x.expense_id } }

RecScoreRows(exps, els, lws) ==
    RecJoinedRows(exps, els, lws) \cup RecLabelOnlyRows(exps, els, lws)
        \cup RecBareRows(exps, els)

\* NTILE(4) OVER (ORDER BY score DESC): bucket 1 takes the first
\* n / 4 rows, one more when 4 does not divide n.
Bucket1Size(n) == (n \div 4) + (IF n % 4 > 0 THEN 1 ELSE 0)

\* WHERE score_priority_bucket_num = 1.  The order among rows of equal score
\* is not determined by the query: every choice of the first Bucket1Size
\* rows of a descending order is a possible result.
HighPriorityChoices(exps, els, lws) ==
    LET rows == RecScoreRows(exps, els, lws)
    IN  { S \in SUBSET rows :
            /\ Cardinality(S) = Bucket1Size(Cardinality(rows))
            /\ \A r \in S : \A q \in rows \ S : r.score >= q.score }

\* f"High priority spending detected on '{product}' (Amount: ${amount:.2f})..."
Message(product, amount) == <<"High priority spending detected on", product, amount>>

\* abs(hash(f"rec_{expense_id}")): Python's str hash, keyed by the
\* per-process hash seed; taken to be free of collisions.
RecommendationId(seed, expense_id) == (seed * 211 + expense_id * 17) % 1009

\* Faulty variant: the conflict clause also sets message = excluded.message.
UpsertRecommendations_RefreshesMessage(tbl, final, seed, t) ==
    LET ids == { RecommendationId(seed, e) : e \in DOMAIN final }
        rowOf(id) == final[CHOOSE e \in DOMAIN final : RecommendationId(seed, e) = id]
    IN  { x \in tbl : x.recommendation_id \notin ids }
        \cup
        { [recommendation_id |-> id, generated_at |-> t,
           message |-> Message(rowOf(id).product_name, rowOf(id).amount),
           confidence |-> rowOf(id).score,
           related_expense_id |-> rowOf(id).expense_id]
          : id \in ids }

\* The loop of upserts over the fetched rows.  `final` gives, per expense of
\* the result, the fetched row that the loop handles last for it.
\* ON CONFLICT (recommendation_id) DO UPDATE SET generated_at, confidence.
UpsertRecommendations(tbl, final, seed, t) ==
    LET ids == { RecommendationId(seed, e) : e \in DOMAIN final }
        rowOf(id) == final[CHOOSE e \in DOMAIN final : RecommendationId(seed, e) = id]
    IN  { IF x.recommendation_id \in ids
          THEN [x EXCEPT !.generated_at = t,
                         !.confidence = rowOf(x.recommendation_id).score]
          ELSE x
          : x \in tbl }
        \cup
        { [recommendation_id |-> id, generated_at |-> t,
           message |-> Message(rowOf(id).product_name, rowOf(id).amount),
           confidence |-> rowOf(id).score,
           related_expense_id |-> rowOf(id).expense_id]
          : id \in { i \in ids : ~ \E x \in tbl : x.recommendation_id = i } }

\* The possible last-handled rows, one per expense of the fetched set S.
FinalRows(S) ==
    { f \in [{ r.expense_id : r \in S } -> S] :
        \A e \in DOMAIN f : f[e].expense_id = e }

\* fetchall() returns one of the possible bucket-1 sets S; the loop then
\* upserts one row per fetched row.  last.ids holds the expense ids of the
\* fetched rows (the call prints their number).
generate_recommendations ==
    /\ tables_created
    /\ \E S \in HighPriorityChoices(expenses, expense_labels, label_weights) :
         \E f \in FinalRows(S) :
           /\ recommendations' = UpsertRecommendations(recommendations, f, hashSeed, now)
           /\ last' = Call("generate_recommendations", "ok", {}, NULL_VARCHAR, DOMAIN f)
    /\ UNCHANGED <<runs, now, hashSeed, tables_created, raw_source_google, expenses,
                   expense_labels, labels, label_weights, category_mappings,
                   unmapped_categories>>

----------------------------------------------------------------------------
(* main.py *)

\* seed_database; ingest_csv; transform_and_load; calculate_scores;
\* generate_recommendations, one after the other on the same store.  An
\* exception of the transform ends the run before the later stages.
main(csv) ==
    LET cm1  == InsertCategoryMappings(category_mappings, SeedCategoryMappings)
        lb1  == InsertLabels(labels, SeedLabels)
        lw1  == InsertLabelWeights(label_weights, SeedLabelWeights(now))
        raw1 == IngestedRows(csv, now)
        err  == TransformError(raw1)
        um1  == TransformUnmapped(raw1, cm1, unmapped_categories)
        ex1  == IF err = "ok" THEN TransformExpenses(raw1, cm1, expenses) ELSE expenses
        el1  == IF err = "ok" THEN TransformLabels(ex1, expense_labels) ELSE expense_labels
    IN  /\ tables_created' = TRUE
        /\ category_mappings' = cm1
        /\ labels' = lb1
        /\ label_weights' = lw1
        /\ raw_source_google' = raw1
        /\ unmapped_categories' = um1
        /\ expenses' = ex1
        /\ expense_labels' = el1
        /\ IF err = "ok"
           THEN \E S \in HighPriorityChoices(ex1, el1, lw1) :
                  \E f \in FinalRows(S) :
                    /\ recommendations' =
                           UpsertRecommendations(recommendations, f, hashSeed, now)
                    /\ last' = Call("main", "ok", {}, NULL_VARCHAR, DOMAIN f)
           ELSE /\ recommendations' = recommendations
                /\ last' = Call("main", err, {}, NULL_VARCHAR, {})
        /\ UNCHANGED <<runs, now, hashSeed>>

----------------------------------------------------------------------------
(* scripts/migrate_tags.py *)

\* SELECT label_id FROM labels WHERE name = ?; fetchone()
HasLabel(tbl, name) == \E l \in tbl : l.name = name

_get_label_id(tbl, name) == (CHOOSE l \in tbl : l.name = name).label_id

\* UPDATE labels SET name = new WHERE name = old.  No row is looked up first:
\* with no label named old_name the UPDATE matches nothing and the call
\* returns normally.  UNIQUE(name) rejects a name another label holds.
rename_label(old_name, new_name) ==
    LET clash == /\ HasLabel(labels, old_name)
                 /\ \E l \in labels : l.name = new_name /\ l.name # old_name
    IN  /\ tables_created
        /\ labels' = IF clash THEN labels
                     ELSE { IF l.name = old_name THEN [l EXCEPT !.name = new_name] ELSE l
                            : l \in labels }
        /\ last' = Call("rename_label", IF clash THEN "ConstraintError" ELSE "ok",
                        {old_name}, new_name, {})
        /\ UNCHANGED <<runs, now, hashSeed, tables_created, raw_source_google, expenses,
                       expense_labels, label_weights, category_mappings,
                       unmapped_categories, recommendations>>

\* UPDATE expense_labels SET label_id = target WHERE label_id IN sources
RepointLabels(els, source_ids, target_id) ==
    { IF el.label_id \in source_ids THEN [el EXCEPT !.label_id = target_id] ELSE el
      : el \in els }

\* The UPDATE violates PRIMARY KEY (expense_id, label_id) when two rows of
\* one expense end on the same label: the expense holds two of the labels
\* among the sources and the target.
RepointClash(els, source_ids, target_id) ==
    \E a, b \in els :
        /\ a # b
        /\ a.expense_id = b.expense_id
        /\ a.label_id \in source_ids
        /\ b.label_id \in source_ids \cup {target_id}

\* merge_labels: target and sources are looked up first (ValueError "not
\* found" before any statement); an empty source list renders "IN ()", which
\* the parser rejects; a failed UPDATE is rolled back and the DELETE is not
\* reached.
MergeError(source_labels, target_label) ==
    IF ~ HasLabel(labels, target_label) \/ \E n \in source_labels : ~ HasLabel(labels, n)
    THEN "NotFound"
    ELSE IF source_labels = {} THEN "ParserError"
    ELSE IF RepointClash(expense_labels,
                         { _get_label_id(labels, n) : n \in source_labels },
                         _get_label_id(labels, target_label))
    THEN "ConstraintError"
    ELSE "ok"

merge_labels(source_labels, target_label) ==
    LET err == MergeError(source_labels, target_label)
    IN  /\ tables_created
        /\ IF err = "ok"
           THEN LET target_id == _get_label_id(labels, target_label)
                    source_ids == { _get_label_id(labels, n) : n \in source_labels }
                IN  /\ expense_labels' = RepointLabels(expense_labels, source_ids, target_id)
                    /\ labels' = { l \in labels : l.label_id \notin source_ids }
           ELSE UNCHANGED <<expense_labels, labels>>
        /\ last' = Call("merge_labels", err, source_labels, target_label, {})
        /\ UNCHANGED <<runs, now, hashSeed, tables_created, raw_source_google, expenses,
                       label_weights, category_mappings, unmapped_categories,
                       recommendations>>

\* INSERT INTO labels (name) VALUES (?) ON CONFLICT DO NOTHING: label_id is
\* not listed and the column has no default, so the row carries a NULL
\* label_id.
NewLabelRow(name) == [label_id |-> NULL, name |-> name]

\* label_id BIGINT PRIMARY KEY is NOT NULL; ON CONFLICT covers key
\* collisions only, so a NULL key is a constraint error.
NotNullViolation(row) == row.label_id = NULL

\* UPDATE expense_labels SET label_id = new WHERE expense_id IN ids
MoveExpenses(els, new_label_id, ids) ==
    { IF el.expense_id \in ids THEN [el EXCEPT !.label_id = new_label_id] ELSE el
      : el \in els }

MoveClash(els, ids) ==
    \E a, b \in els : a # b /\ a.expense_id = b.expense_id /\ a.expense_id \in ids

\* split_label: source_label is only printed, never looked up.
SplitError(new_label, ids) ==
    IF NotNullViolation(NewLabelRow(new_label)) THEN "ConstraintError"
    ELSE IF ~ HasLabel(InsertLabels(labels, {NewLabelRow(new_label)}), new_label)
    THEN "NotFound"
    ELSE IF ids = {} THEN "ParserError"
    ELSE IF MoveClash(expense_labels, ids) THEN "ConstraintError"
    ELSE "ok"

split_label(source_label, new_label, expense_ids_to_move) ==
    LET err == SplitError(new_label, expense_ids_to_move)
        row == NewLabelRow(new_label)
    IN  /\ tables_created
        /\ labels' = IF NotNullViolation(row) THEN labels
                     ELSE InsertLabels(labels, {row})
        /\ expense_labels' =
               IF err = "ok"
               THEN MoveExpenses(expense_labels, _get_label_id(labels', new_label),
                                 expense_ids_to_move)
               ELSE expense_labels
        /\ last' = Call("split_label", err, {source_label}, new_label, expense_ids_to_move)
        /\ UNCHANGED <<runs, now, hashSeed, tables_created, raw_source_google, expenses,
                       label_weights, category_mappings, unmapped_categories,
                       recommendations>>

----------------------------------------------------------------------------
(* src/SmartBudget/etl/pipelines.py *)

\* cell.value of openpyxl: an empty cell is None.
SheetCell(s) == IF s = "" THEN NULL_VARCHAR ELSE s

\* str(value).strip() over the texts in use.
Strip(s) == IF s \in {" ", "  "} THEN "" ELSE s

clean_text(value) ==
    IF value = NULL_VARCHAR THEN NULL_VARCHAR
    ELSE IF Strip(value) = "" THEN NULL_VARCHAR
    ELSE Strip(value)

\* float(re.sub(r"[^\d.\-]", "", str(value))): a number cell keeps its value.
parse_price(value) == value

\* date.fromisoformat(str(v)) succeeds on YYYY-MM-DD texts only.
IsIsoDate(v) == v \in {"2024-01-15", "2024-02-15", "2024-03-15"}

\* TransactionRow.model_validate: the field validators, then
\* check_business_rules; "ok" or the reason of the ValueError.
RowError(row) ==
    IF ~ IsIsoDate(SheetCell(row.date)) THEN "Invalid date format"
    ELSE IF /\ clean_text(SheetCell(row.item)) = NULL_VARCHAR
            /\ clean_text(SheetCell(row.notes)) = NULL_VARCHAR
    THEN "Either 'Item' or 'Note' must be provided."
    ELSE IF parse_price(row.price) < 0 THEN "Price cannot be negative."
    ELSE "ok"

\* The results the generator yields, one per data row: a validated row or an
\* error record carrying the sheet row index (the header is row 1).
TransactionResults(sheet) ==
    [i \in 1..Len(sheet) |->
        IF RowError(sheet[i]) = "ok"
        THEN [valid |-> TRUE, row_index |-> i + 1, error |-> "ok", data |-> sheet[i]]
        ELSE [valid |-> FALSE, row_index |-> i + 1, error |-> RowError(sheet[i]),
              data |-> sheet[i]]]

\* process_transactions only yields: nothing is written to the store.
\* last.ids holds the row indexes of the error records.
process_transactions(sheet) ==
    /\ last' = Call("process_transactions", "ok", {}, NULL_VARCHAR,
                    { TransactionResults(sheet)[i].row_index :
                        i \in { j \in 1..Len(sheet) : ~ TransactionResults(sheet)[j].valid } })
    /\ UNCHANGED <<runs, now, hashSeed, tables_created, tables>>

----------------------------------------------------------------------------
(* Concurrent pipeline runs: main.py started twice, each run a process of  *)
(* its own.  Every stage opens its own connection to the database file     *)
(* (duckdb.connect, read_only=False), runs its statements and closes it.    *)

Runs == {1, 2}

\* The stages of main() in order.
Stages == <<"seed", "ingest", "transform", "scores", "recommend">>

\* Where a run is after a stage returned: waiting to connect for the next
\* stage, or done after the last one.
StageAfter(stage) ==
    LET k == CHOOSE n \in 1..Len(Stages) : Stages[n] = stage
    IN  IF k = Len(Stages) THEN <<"done">> ELSE <<"wait", Stages[k + 1]>>

Waiting(pc) == \E k \in 1..Len(Stages) : pc = <<"wait", Stages[k]>>
Open(pc) == \E k \in 1..Len(Stages) : pc = <<"open", Stages[k]>>

\* The run leaves the stage whose connection it holds: on to the next stage
\* when the stage returned, dead when it raised.
AfterStage(i, stage, err) ==
    [runs EXCEPT ![i].pc = IF err = "ok" THEN StageAfter(stage) ELSE <<"failed">>]

\* python main.py: a new process with a string-hash seed of its own.
start_run(i) ==
    /\ runs[i].pc = <<"idle">>
    /\ \E h \in 1..NumHashSeeds :
           runs' = [runs EXCEPT ![i] = [pc |-> <<"wait", Stages[1]>>, seed |-> h]]
    /\ UNCHANGED <<now, hashSeed, tables_created, tables, last>>

\* duckdb.connect(database=db_path, read_only=False): one process at a time
\* holds the database file for writing; while the other run holds it the
\* call raises an IO error, which ends the run.
connect(i) ==
    /\ Waiting(runs[i].pc)
    /\ runs' = [runs EXCEPT ![i].pc =
                   IF \E j \in Runs \ {i} : Open(runs[j].pc)
                   THEN <<"failed">> ELSE <<"open", runs[i].pc[2]>>]
    /\ UNCHANGED <<now, hashSeed, tables_created, tables, last>>

\* The statements of a stage and con.close(), run while the connection is
\* held: no statement of the other run can come in between.
run_seed_database(i) ==
    /\ runs[i].pc = <<"open", "seed">>
    /\ tables_created' = TRUE
    /\ category_mappings' = InsertCategoryMappings(category_mappings, SeedCategoryMappings)
    /\ labels' = InsertLabels(labels, SeedLabels)
    /\ label_weights' = InsertLabelWeights(label_weights, SeedLabelWeights(now))
    /\ last' = Call("seed_database", "ok", {}, NULL_VARCHAR, {})
    /\ runs' = AfterStage(i, "seed", "ok")
    /\ UNCHANGED <<now, hashSeed, raw_source_google, expenses, expense_labels,
                   unmapped_categories, recommendations>>

run_ingest_csv(i, csv) ==
    /\ runs[i].pc = <<"open", "ingest">>
    /\ raw_source_google' = IngestedRows(csv, now)
    /\ last' = Call("ingest_csv", "ok", {}, NULL_VARCHAR, {})
    /\ runs' = AfterStage(i, "ingest", "ok")
    /\ UNCHANGED <<now, hashSeed, tables_created, expenses, expense_labels, labels,
                   label_weights, category_mappings, unmapped_categories,
                   recommendations>>

run_transform_and_load(i) ==
    LET err == TransformError(raw_source_google)
    IN  /\ runs[i].pc = <<"open", "transform">>
        /\ unmapped_categories' =
               TransformUnmapped(raw_source_google, category_mappings, unmapped_categories)
        /\ expenses' = IF err = "ok"
                       THEN TransformExpenses(raw_source_google, category_mappings, expenses)
                       ELSE expenses
        /\ expense_labels' = IF err = "ok"
                             THEN TransformLabels(expenses', expense_labels)
                             ELSE expense_labels
        /\ last' = Call("transform_and_load", err, {}, NULL_VARCHAR, {})
        /\ runs' = AfterStage(i, "transform", err)
        /\ UNCHANGED <<now, hashSeed, tables_created, raw_source_google, labels,
                       label_weights, category_mappings, recommendations>>

run_calculate_scores(i) ==
    /\ runs[i].pc = <<"open", "scores">>
    /\ last' = Call("calculate_scores", "ok", {}, NULL_VARCHAR, {})
    /\ runs' = AfterStage(i, "scores", "ok")
    /\ UNCHANGED <<now, hashSeed, tables_created, tables>>

\* The recommendation ids are computed with the hash seed of the run.
run_generate_recommendations(i) ==
    /\ runs[i].pc = <<"open", "recommend">>
    /\ \E S \in HighPriorityChoices(expenses, expense_labels, label_weights) :
         \E f \in FinalRows(S) :
           /\ recommendations' =
                  UpsertRecommendations(recommendations, f, runs[i].seed, now)
           /\ last' = Call("generate_recommendations", "ok", {}, NULL_VARCHAR, DOMAIN f)
    /\ runs' = AfterStage(i, "recommend", "ok")
    /\ UNCHANGED <<now, hashSeed, tables_created, raw_source_google, expenses,
                   expense_labels, labels, label_weights, category_mappings,
                   unmapped_categories>>

----------------------------------------------------------------------------
(* Label Taxonomy, set_weight: no code of the repository implements it; it  *)
(* is modelled from the design text so that closed weight rows exist.       *)

WeightInputs == {20}
WeightLabelInputs == {102}

\* Close the active row(s) of the label at effective_from, insert a new
\* active row.  PRIMARY KEY (label_id, effective_from) rejects a second
\* change of one label at one instant.
set_weight(label_id, weight, effective_from) ==
    /\ tables_created
    /\ ~ \E lw \in label_weights :
           lw.label_id = label_id /\ lw.effective_from = effective_from
    /\ label_weights' =
           { IF lw.label_id = label_id /\ lw.effective_to = NULL
             THEN [lw EXCEPT !.effective_to = effective_from] ELSE lw
             : lw \in label_weights }
           \cup { [label_id |-> label_id, weight |-> weight,
                   effective_from |-> effective_from, effective_to |-> NULL] }
    /\ last' = Call("set_weight", "ok", {}, NULL_VARCHAR, {label_id})
    /\ UNCHANGED <<runs, now, hashSeed, tables_created, raw_source_google, expenses,
                   expense_labels, labels, category_mappings, unmapped_categories,
                   recommendations>>

----------------------------------------------------------------------------
(* The environment: a category mapping is added to category_mappings. *)

MappableCategories == {"cafe"}
MappingTargets == {1, 2}

\* A new (source system, raw value) -> category id row; the primary key
\* admits one row per raw value.
add_mapping(raw_value, category_id) ==
    /\ tables_created
    /\ ~ \E m \in category_mappings :
           m.source_system = "google_sheets" /\ m.raw_value = raw_value
    /\ category_mappings' = category_mappings \cup
           { [source_system |-> "google_sheets", raw_value |-> raw_value,
              category_id |-> category_id] }
    /\ last' = Call("add_mapping", "ok", {raw_value}, NULL_VARCHAR, {})
    /\ UNCHANGED <<runs, now, hashSeed, tables_created, raw_source_google, expenses,
                   expense_labels, labels, label_weights, unmapped_categories,
                   recommendations>>

----------------------------------------------------------------------------
(* The environment: time passes; a new Python process starts. *)

Tick ==
    /\ now < MaxTime
    /\ now' = now + 1
    /\ UNCHANGED <<runs, hashSeed, tables_created, tables, last>>

\* A fresh interpreter draws a fresh string-hash seed (PYTHONHASHSEED unset);
\* the seed of the first process is called 1.
NewProcess ==
    /\ \E h \in 1..NumHashSeeds : h # hashSeed /\ hashSeed' = h
    /\ UNCHANGED <<runs, now, tables_created, tables, last>>

ExpenseIds == { ExpenseId(i) : i \in 0..(MaxRows - 1) }

Init ==
    /\ now = Strptime("2024-03-15")
    /\ hashSeed = 1
    /\ tables_created = FALSE
    /\ raw_source_google = {}
    /\ expenses = {}
    /\ expense_labels = {}
    /\ labels = {}
    /\ label_weights = {}
    /\ category_mappings = {}
    /\ unmapped_categories = {}
    /\ recommendations = {}
    /\ last = Call("none", "ok", {}, NULL_VARCHAR, {})
    /\ runs = [i \in Runs |-> [pc |-> <<"idle">>, seed |-> 1]]

----------------------------------------------------------------------------
(* Loading: the stages that resolve categories and store expenses, run on  *)
(* changing CSV files while category mappings are added.                   *)

LoadRows ==
    [date : {"2024-03-15"}, item : RawItems, category : {"groceries", "cafe"},
     price : {100}, notes : {""}]

LoadCsvFiles == UNION { [1..n -> LoadRows] : n \in 0..MaxRows }

Next ==
    \/ seed_database
    \/ \E csv \in LoadCsvFiles : ingest_csv(csv)
    \/ transform_and_load
    \/ calculate_scores
    \/ \E c \in MappableCategories, k \in MappingTargets : add_mapping(c, k)

Spec == Init /\ [][Next]_vars

----------------------------------------------------------------------------
(* The store over time: pipeline runs in successive processes, weight      *)
(* changes in between.                                                     *)

ClockRows ==
    [date : {"2024-03-15"}, item : RawItems, category : {"restaurant"},
     price : {100}, notes : {""}]

ClockCsvFiles == UNION { [1..n -> ClockRows] : n \in 0..MaxRows }

NextClock ==
    \/ Tick
    \/ NewProcess
    \/ seed_database
    \/ generate_recommendations
    \/ \E csv \in ClockCsvFiles : main(csv)
    \/ \E l \in WeightLabelInputs, w \in WeightInputs : set_weight(l, w, now)

SpecClock == Init /\ [][NextClock]_vars

----------------------------------------------------------------------------
(* Recommending: loads and generator runs in one process at one instant,   *)
(* over expenses with and without labels, with and without an amount.      *)

RecommendRows ==
    { r \in [date : {"2024-03-15"}, item : RawItems, category : {"restaurant", "cafe"},
              price : RawPrices, notes : {""}] :
        r.category = "restaurant" => r.price = 100 }

RecommendCsvFiles == UNION { [1..n -> RecommendRows] : n \in 0..MaxRows }

NextRecommend ==
    \/ seed_database
    \/ \E csv \in RecommendCsvFiles : ingest_csv(csv)
    \/ transform_and_load
    \/ generate_recommendations

SpecRecommend == Init /\ [][NextRecommend]_vars

----------------------------------------------------------------------------
(* The label taxonomy: lifecycle operations between loads.                 *)

TaxonomyRows ==
    [date : {"2024-03-15"}, item : RawItems, category : {"groceries", "restaurant"},
     price : {100}, notes : {""}]

TaxonomyCsvFiles == UNION { [1..n -> TaxonomyRows] : n \in 0..MaxRows }

MergeSources == SUBSET {"essential", "discretionary", "misc"}
MergeTargets == {"work", "discretionary", "misc"}
SplitSources == {"essential", "misc"}
SplitTargets == {"work", "misc"}

NextTaxonomy ==
    \/ seed_database
    \/ \E csv \in TaxonomyCsvFiles : ingest_csv(csv)
    \/ transform_and_load
    \/ \E srcs \in MergeSources, t \in MergeTargets : merge_labels(srcs, t)
    \/ \E s \in SplitSources, n \in SplitTargets, ids \in SUBSET ExpenseIds :
           split_label(s, n, ids)

SpecTaxonomy == Init /\ [][NextTaxonomy]_vars

----------------------------------------------------------------------------
(* Renaming labels between loads. *)

RenameSources == {"essential", "misc"}
RenameTargets == {"misc", "work"}

NextRename ==
    \/ seed_database
    \/ \E csv \in TaxonomyCsvFiles : ingest_csv(csv)
    \/ transform_and_load
    \/ \E o \in RenameSources, n \in RenameTargets : rename_label(o, n)

SpecRename == Init /\ [][NextRename]_vars

----------------------------------------------------------------------------
(* The audit trail of unmapped categories: loads at successive instants of *)
(* files with mapped, unmapped and empty categories.                       *)

AuditRows ==
    [date : {"2024-03-15"}, item : RawItems, category : {"cafe", ""},
     price : {100}, notes : {""}]

AuditCsvFiles == UNION { [1..n -> AuditRows] : n \in 0..MaxRows }

NextAudit ==
    \/ Tick
    \/ seed_database
    \/ \E csv \in AuditCsvFiles : ingest_csv(csv)
    \/ transform_and_load

SpecAudit == Init /\ [][NextAudit]_vars

----------------------------------------------------------------------------
(* Scoring: the scored view over labelled expenses of different ages and   *)
(* amounts, in one process at one instant.                                 *)

ScoringRows ==
    [date : {"2024-01-15", "2024-03-15"}, item : RawItems, category : {"restaurant"},
     price : {100}, notes : {""}]

ScoringCsvFiles == UNION { [1..n -> ScoringRows] : n \in 0..MaxRows }

NextScoring ==
    \/ seed_database
    \/ \E csv \in ScoringCsvFiles : ingest_csv(csv)
    \/ transform_and_load
    \/ calculate_scores

SpecScoring == Init /\ [][NextScoring]_vars

----------------------------------------------------------------------------
(* Scoring over amounts of either sign: the price of a raw row is stored   *)
(* as it is read.                                                          *)

SignedRows ==
    [date : {"2024-01-15", "2024-03-15"}, item : RawItems, category : {"restaurant"},
     price : {100, 0 - 100}, notes : {""}]

SignedCsvFiles == UNION { [1..n -> SignedRows] : n \in 0..MaxRows }

NextSigned ==
    \/ seed_database
    \/ \E csv \in SignedCsvFiles : ingest_csv(csv)
    \/ transform_and_load
    \/ calculate_scores

SpecSigned == Init /\ [][NextSigned]_vars

----------------------------------------------------------------------------
(* Reloading changed files: the same row positions come back with another  *)
(* price and other notes.                                                   *)

UpsertRows ==
    { r \in [date : {"2024-03-15"}, item : RawItems, category : {"groceries"},
              price : {100, 200}, notes : {"", "gift"}] :
        r.price = 200 <=> r.notes = "gift" }

UpsertCsvFiles == UNION { [1..n -> UpsertRows] : n \in 0..MaxRows }

NextUpsert ==
    \/ seed_database
    \/ \E csv \in UpsertCsvFiles : ingest_csv(csv)
    \/ transform_and_load

SpecUpsert == Init /\ [][NextUpsert]_vars

----------------------------------------------------------------------------
(* Batches with invalid rows: a date that is no date, a missing item, a    *)
(* negative price; read by the row validator and loaded by the transform.  *)

BatchRows ==
    [date : {"2024-03-15", "15/03/2024"}, item : {"milk", ""},
     category : {"groceries"}, price : {100, 0 - 100}, notes : {""}]

BatchFiles == UNION { [1..n -> BatchRows] : n \in 0..MaxRows }

NextBatch ==
    \/ seed_database
    \/ \E csv \in BatchFiles : ingest_csv(csv)
    \/ transform_and_load
    \/ \E sheet \in BatchFiles : process_transactions(sheet)

SpecBatch == Init /\ [][NextBatch]_vars

----------------------------------------------------------------------------
(* The life of an expense: pipeline runs over files that grow and shrink,  *)
(* with label lifecycle operations in between.                             *)

LifecycleRows ==
    [date : {"2024-03-15"}, item : RawItems, category : {"groceries"},
     price : {100}, notes : {""}]

LifecycleCsvFiles == UNION { [1..n -> LifecycleRows] : n \in 0..MaxRows }

NextLifecycle ==
    \/ \E csv \in LifecycleCsvFiles : main(csv)
    \/ \E csv \in LifecycleCsvFiles : ingest_csv(csv)
    \/ transform_and_load
    \/ rename_label("essential", "misc")
    \/ merge_labels({"essential"}, "work")
    \/ \E ids \in SUBSET ExpenseIds : split_label("work", "misc", ids)

SpecLifecycle == Init /\ [][NextLifecycle]_vars

----------------------------------------------------------------------------
(* Recommendations over changing expenses: pipeline runs on files with     *)
(* other prices, in one process at one instant.                            *)

RetainRows ==
    [date : {"2024-03-15"}, item : RawItems, category : {"restaurant"},
     price : {100, 200}, notes : {""}]

RetainCsvFiles == UNION { [1..n -> RetainRows] : n \in 0..MaxRows }

NextRetain == \E csv \in RetainCsvFiles : main(csv)

SpecRetain == Init /\ [][NextRetain]_vars

----------------------------------------------------------------------------
(* Ranking: pipeline runs at successive instants, each seeding weight rows, *)
(* over expenses that carry no label, one label or two.                     *)

RankRow(category, price) ==
    [date |-> "2024-03-15", item |-> "milk", category |-> category,
     price |-> price, notes |-> ""]

\* Files of up to two rows: the first row comes back under another
\* category, a category without mapping has the higher price.
RankCsvFiles ==
    { <<>>,
      <<RankRow("groceries", 100)>>,
      <<RankRow("cafe", 200)>>,
      <<RankRow("groceries", 100), RankRow("cafe", 200)>>,
      <<RankRow("restaurant", 100), RankRow("cafe", 200)>> }

NextRank ==
    \/ Tick
    \/ \E csv \in RankCsvFiles : main(csv)

SpecRank == Init /\ [][NextRank]_vars

----------------------------------------------------------------------------
(* Two pipeline runs at a time on one store. *)

ConcurrentRows ==
    [date : {"2024-03-15"}, item : RawItems, category : {"restaurant", "cafe"},
     price : {100}, notes : {""}]

ConcurrentCsvFiles == UNION { [1..n -> ConcurrentRows] : n \in 0..1 }

NextConcurrent ==
    \E i \in Runs :
        \/ start_run(i)
        \/ connect(i)
        \/ run_seed_database(i)
        \/ \E csv \in ConcurrentCsvFiles : run_ingest_csv(i, csv)
        \/ run_transform_and_load(i)
        \/ run_calculate_scores(i)
        \/ run_generate_recommendations(i)

SpecConcurrent == Init /\ [][NextConcurrent]_vars

----------------------------------------------------------------------------
(* Properties. *)

ActiveWeights(label_id) ==
    { lw \in label_weights : lw.label_id = label_id /\ lw.effective_to = NULL }

\* C1: in every reachable state each label has at most one label_weights row
\* whose effective_to is null.
C1_OneActiveWeightPerLabel ==
    \A lw \in label_weights : Cardinality(ActiveWeights(lw.label_id)) <= 1

\* A CSV file whose ingestion gives the raw table: a NULL is written as an
\* empty cell.
CsvCell(v) == IF v = NULL_VARCHAR THEN "" ELSE v

CsvOf(raw) ==
    [i \in 1..Cardinality(raw) |->
        LET r == CHOOSE x \in raw : x.id = i - 1
        IN  [date |-> r.date, item |-> CsvCell(r.item), category |-> CsvCell(r.category),
             price |-> r.price, notes |-> CsvCell(r.notes)]]

NoDuplicateExpenseIds(exps) ==
    \A a, b \in exps : a.expense_id = b.expense_id => a = b

NoDuplicateAssociations(els) ==
    \A a, b \in els : (a.expense_id = b.expense_id /\ a.label_id = b.label_id) => a = b

\* C2: after ingest and transform_and_load, ingesting the same file again (at
\* the same or any later instant) and transforming again leaves the same
\* expense rows, no two with one id, and the same expense-label associations.
C2_ReloadIsIdempotent ==
    last.op = "transform_and_load" =>
        \A t \in now..MaxTime :
            LET raw2 == IngestedRows(CsvOf(raw_source_google), t)
                ex2  == TransformExpenses(raw2, category_mappings, expenses)
                el2  == TransformLabels(ex2, expense_labels)
            IN  /\ ex2 = expenses
                /\ Cardinality(ex2) = Cardinality(expenses)
                /\ NoDuplicateExpenseIds(expenses)
                /\ NoDuplicateExpenseIds(ex2)
                /\ el2 = expense_labels
                /\ NoDuplicateAssociations(el2)

\* C2 witness: a load of a two-row file that stored two expenses, one of
\* them labelled.
C2_Witness ==
    /\ last.op = "transform_and_load"
    /\ Cardinality(raw_source_google) = 2
    /\ Cardinality(expenses) = 2
    /\ expense_labels # {}

ExpensesOf(els, label_id) ==
    { el.expense_id : el \in { x \in els : x.label_id = label_id } }

\* C3: for existing labels and any prior associations, after
\* merge(sources, target) the expenses associated with the target are exactly
\* the union of those of the sources and of the target before, and no source
\* label exists any more.
C3_MergeGivesUnion ==
    [][\A srcs \in MergeSources \ {{}}, t \in MergeTargets :
          ( /\ merge_labels(srcs, t)
            /\ HasLabel(labels, t)
            /\ \A n \in srcs : HasLabel(labels, n) )
          => LET tid  == _get_label_id(labels, t)
                 sids == { _get_label_id(labels, n) : n \in srcs }
             IN  /\ ExpensesOf(expense_labels', tid) =
                        UNION { ExpensesOf(expense_labels, l) : l \in sids \cup {tid} }
                 /\ \A n \in srcs : ~ HasLabel(labels', n)]_vars

\* C4: merge either repoints every association and removes every source
\* label, or fails with a not-found error and leaves labels, expense_labels
\* and label_weights unchanged.
C4_MergeAllOrNotFound ==
    [][\A srcs \in MergeSources \ {{}}, t \in MergeTargets :
          merge_labels(srcs, t)
          => \/ /\ last'.err = "ok"
                /\ LET tid  == _get_label_id(labels, t)
                       sids == { _get_label_id(labels, n) : n \in srcs }
                   IN  /\ \A el \in expense_labels :
                            el.label_id \in sids =>
                              [expense_id |-> el.expense_id, label_id |-> tid]
                                  \in expense_labels'
                       /\ \A el \in expense_labels' :
                            el.label_id \in sids => el.label_id = tid
                       /\ \A l \in labels' : l.label_id \notin sids
             \/ /\ last'.err = "NotFound"
                /\ UNCHANGED <<labels, expense_labels, label_weights>>]_vars

\* C5: split(a, b, ids) moves exactly the expenses in ids to label b: they
\* are associated with b afterwards, every other expense of a is still
\* associated with a, and no association of an expense outside ids changes.
C5_SplitMovesExactlyIds ==
    [][\A a \in SplitSources, b \in SplitTargets, ids \in SUBSET ExpenseIds :
          ( /\ split_label(a, b, ids)
            /\ ids # {}
            /\ HasLabel(labels, a)
            /\ ids \subseteq ExpensesOf(expense_labels, _get_label_id(labels, a)) )
          => LET aid == _get_label_id(labels, a)
             IN  /\ \A e \in ids :
                       \E el \in expense_labels', l \in labels' :
                           el.expense_id = e /\ el.label_id = l.label_id /\ l.name = b
                 /\ \A e \in ExpensesOf(expense_labels, aid) \ ids :
                       [expense_id |-> e, label_id |-> aid] \in expense_labels'
                 /\ \A el \in expense_labels \cup expense_labels' :
                       el.expense_id \notin ids =>
                           (el \in expense_labels /\ el \in expense_labels')]_vars

\* C6: re-running generate_recommendations, in the same or in a later
\* process, leaves at most one recommendation row per related expense id and
\* changes only generated_at and confidence of the rows that exist.
C6_RerunUpdatesInPlace ==
    [][/\ \A a, b \in recommendations' :
             a.related_expense_id = b.related_expense_id => a = b
       /\ \A x \in recommendations :
             \E y \in recommendations' :
                 y = [x EXCEPT !.generated_at = y.generated_at,
                               !.confidence = y.confidence]]_vars

\* C7: when there is no expense, or every expense has a zero score, a run of
\* generate_recommendations fetches and stores no recommendation.
C7_NoRecommendationOnZeroScores ==
    ( /\ last.op = "generate_recommendations"
      /\ \A r \in RecScoreRows(expenses, expense_labels, label_weights) : r.score = 0 )
    => last.ids = {}

\* C8: the scored view has a row for every expense; an expense without a
\* label that has an active weight is scored amount * 1.0 * 0.6^age_months.
C8_ScoredViewCoversEveryExpense ==
    \A e \in expenses :
        \E v \in PriorityScores(expenses, expense_labels, label_weights, now) :
            /\ v.expense_id = e.expense_id
            /\ ( ~ \E r \in ScoredLabels(expenses, expense_labels, label_weights, now) :
                     r.expense_id = e.expense_id )
               => v.priority_score =
                      Contribution([amount |-> e.amount, weight |-> 10,
                                    month_diff |-> MonthDiff(e.occurred_at, now)])

\* C9: every weight row joined by the scoring view and by the quartile
\* ranking of the recommendation query is an active row (effective_to null).
C9_OnlyActiveWeightsAreUsed ==
    /\ \A r \in ScoredLabels(expenses, expense_labels, label_weights, now) :
           \E lw \in label_weights :
               /\ lw.label_id = r.label_id
               /\ lw.effective_from = r.effective_from
               /\ lw.effective_to = NULL
    /\ \A r \in RecScoreRows(expenses, expense_labels, label_weights) :
           r.effective_to = NULL

RawCategoryOf(expense_id) ==
    { r.category : r \in { x \in raw_source_google : ExpenseId(x.id) = expense_id } }

\* C10: a transform run gives every stored expense that has a null category,
\* and whose raw row names a category that is mapped by then, the mapped
\* category id.
C10_NextTransformResolvesCategory ==
    [][transform_and_load =>
         \A e \in expenses, r \in raw_source_google :
             ( /\ e.category_id = NULL
               /\ ExpenseId(r.id) = e.expense_id
               /\ MappedCategoryId(category_mappings, r.category) # NULL )
             => \E f \in expenses' :
                    /\ f.expense_id = e.expense_id
                    /\ f.category_id = MappedCategoryId(category_mappings, r.category)
                    /\ \A g \in expenses' : g.expense_id = f.expense_id => g = f]_vars

\* C10 witness: a transform run has left an expense with a category id
\* although its raw category is on record as unmapped since an earlier run.
C10_Witness ==
    /\ last.op = "transform_and_load"
    /\ \E e \in expenses, u \in unmapped_categories :
           /\ e.category_id # NULL
           /\ u.raw_value \in RawCategoryOf(e.expense_id)
           /\ MappedCategoryId(category_mappings, u.raw_value) = e.category_id

SameUnmappedKey(a, b) ==
    a.raw_value = b.raw_value /\ a.source_system = b.source_system

IsUnmapped(r) ==
    r.category # NULL_VARCHAR /\ MappedCategoryId(category_mappings, r.category) = NULL

\* C11: a transform run leaves exactly one unmapped_categories row per
\* (raw value, source system) for every raw category without a mapping, first
\* seen at the ingestion instant when the row is new; a row that exists is
\* left as it is (first_seen_at unchanged) and no other row is added.
C11_UnmappedLoggedOnce ==
    [][transform_and_load =>
         /\ \A u \in unmapped_categories : u \in unmapped_categories'
         /\ \A a, b \in unmapped_categories' : SameUnmappedKey(a, b) => a = b
         /\ \A r \in raw_source_google :
               IsUnmapped(r) =>
                 \E u \in unmapped_categories' :
                     /\ u.raw_value = r.category
                     /\ u.source_system = "google_sheets"
                     /\ u \notin unmapped_categories => u.first_seen_at = r.ingested_at
         /\ \A u \in unmapped_categories' \ unmapped_categories :
               \E r \in raw_source_google : IsUnmapped(r) /\ r.category = u.raw_value]_vars

\* C11 witness: a transform run has seen, in a file ingested later, a raw
\* category that is on record as unmapped since an earlier instant.
C11_Witness ==
    /\ last.op = "transform_and_load"
    /\ \E u \in unmapped_categories, r \in raw_source_google :
           /\ r.category = u.raw_value
           /\ u.first_seen_at < r.ingested_at
    /\ \A a, b \in unmapped_categories : SameUnmappedKey(a, b) => a = b

C13_RenameMissingIsNotFound ==
    [][\A o \in RenameSources, n \in RenameTargets :
          (rename_label(o, n) /\ ~ HasLabel(labels, o))
          => (last'.err = "NotFound" /\ UNCHANGED tables)]_vars

\* C14: split(source_name, new_name, expense_ids) with no label named
\* source_name fails with a not-found error, creates no label and repoints no
\* association.
C14_SplitMissingIsNotFound ==
    [][\A a \in SplitSources, b \in SplitTargets, ids \in SUBSET ExpenseIds :
          (split_label(a, b, ids) /\ ~ HasLabel(labels, a))
          => /\ last'.err = "NotFound"
             /\ labels' = labels
             /\ expense_labels' = expense_labels]_vars

\* C15: in every reachable state every expense_labels row refers to a label
\* that exists in labels.
C15_AssociationsReferToLabels ==
    \A el \in expense_labels : \E l \in labels : l.label_id = el.label_id

\* The scored view of the current store.
View == ExpenseScores(expenses, expense_labels, label_weights, now)

LabelsOf(expense_id) ==
    { el.label_id : el \in { x \in expense_labels : x.expense_id = expense_id } }

\* The expense carries exactly one label, and that label has exactly one
\* active weight row, of weight w (in tenths).
OneLabelOfWeight(e, w) ==
    /\ Cardinality(LabelsOf(e.expense_id)) = 1
    /\ \A l \in LabelsOf(e.expense_id) :
          { lw.weight : lw \in ActiveWeights(l) } = {w} /\ Cardinality(ActiveWeights(l)) = 1

\* C16: with only A (amount 100, age 0 months) and B (amount 100, age 2
\* months) stored, both under one label of active weight 1.5, the view gives
\* A priority_score 150, score_norm 1.0, High and B priority_score 54,
\* score_norm 0.36, Low.
C16_ScenarioScores ==
    \A a, b \in expenses :
        ( /\ expenses = {a, b}
          /\ a.amount = 100 /\ MonthDiff(a.occurred_at, now) = 0
          /\ b.amount = 100 /\ MonthDiff(b.occurred_at, now) = 2
          /\ OneLabelOfWeight(a, 15) /\ OneLabelOfWeight(b, 15)
          /\ LabelsOf(a.expense_id) = LabelsOf(b.expense_id) )
        => /\ Cardinality(View) = 2
           /\ \E va, vb \in View :
                 /\ va.expense_id = a.expense_id
                 /\ va.priority_score = 150 * ScoreUnit
                 /\ va.score_norm[1] = va.score_norm[2]
                 /\ va.score_priority_bucket = "High"
                 /\ vb.expense_id = b.expense_id
                 /\ vb.priority_score = 54 * ScoreUnit
                 /\ vb.score_norm[1] * 100 = 36 * vb.score_norm[2]
                 /\ vb.score_priority_bucket = "Low"

\* C16 witness: calculate_scores has run over exactly the expenses A and B
\* of the scenario.
C16_Witness ==
    /\ last.op = "calculate_scores"
    /\ \E a, b \in expenses :
           /\ expenses = {a, b}
           /\ a.amount = 100 /\ MonthDiff(a.occurred_at, now) = 0
           /\ b.amount = 100 /\ MonthDiff(b.occurred_at, now) = 2
           /\ OneLabelOfWeight(a, 15) /\ OneLabelOfWeight(b, 15)
           /\ \E v \in View : v.expense_id = b.expense_id /\ v.score_priority_bucket = "Low"

\* C17: when some row of the scored view has a positive priority_score,
\* every row has 0 <= score_norm <= 1.
C17_ScoreNormInUnitInterval ==
    (\E v \in View : v.priority_score > 0)
    => \A v \in View :
           /\ v.score_norm[2] > 0
           /\ 0 <= v.score_norm[1]
           /\ v.score_norm[1] <= v.score_norm[2]

\* C18: of two scored expenses with the same amount and the same labels, the
\* one that occurred later has a priority_score at least as high, and the
\* same score when both occurred in the same month.
C18_ScoreMonotonicInRecency ==
    \A a, b \in expenses : \A va, vb \in View :
        ( /\ va.expense_id = a.expense_id
          /\ vb.expense_id = b.expense_id
          /\ a.amount = b.amount
          /\ LabelsOf(a.expense_id) = LabelsOf(b.expense_id)
          /\ a.occurred_at >= b.occurred_at )
        => /\ va.priority_score >= vb.priority_score
           /\ a.occurred_at = b.occurred_at => va.priority_score = vb.priority_score

\* C19: a transform run leaves, for every expense that exists, exactly one
\* row of its id; quantity, unit_price, payment_mode_id, notes, source_system
\* and source_row_id of that row are as before, and occurred_at, product_name,
\* amount and category_id are those of the raw row of that id, if there is one.
C19_UpsertOverwritesFourFields ==
    [][transform_and_load =>
         \A e \in expenses :
             \E f \in expenses' :
                 /\ f.expense_id = e.expense_id
                 /\ \A g \in expenses' : g.expense_id = f.expense_id => g = f
                 /\ f.quantity = e.quantity
                 /\ f.unit_price = e.unit_price
                 /\ f.payment_mode_id = e.payment_mode_id
                 /\ f.notes = e.notes
                 /\ f.source_system = e.source_system
                 /\ f.source_row_id = e.source_row_id
                 /\ \A r \in raw_source_google :
                       ExpenseId(r.id) = e.expense_id =>
                           /\ f.occurred_at = Strptime(r.date)
                           /\ f.product_name = r.item
                           /\ f.amount = r.price
                           /\ f.category_id = MappedCategoryId(category_mappings, r.category)]_vars

\* C19 witness: a transform run has upserted a raw row onto an expense that
\* existed: the amount is the new price while unit_price and notes are still
\* those of the first load.
C19_Witness ==
    /\ last.op = "transform_and_load"
    /\ \E e \in expenses, r \in raw_source_google :
           /\ ExpenseId(r.id) = e.expense_id
           /\ e.amount = r.price
           /\ e.unit_price # r.price
           /\ e.notes # r.notes

\* The raw row as the row validator reads it.
RawRowError(r) ==
    RowError([date |-> CsvCell(r.date), item |-> CsvCell(r.item),
              category |-> CsvCell(r.category), price |-> r.price,
              notes |-> CsvCell(r.notes)])

ExpensesOfId(exps, expense_id) == { e \in exps : e.expense_id = expense_id }

\* C20: the validator yields an error record for exactly the invalid rows of
\* a batch, and a transform run over a batch stores the expense of every
\* valid row and stores or changes nothing for an invalid row.
C20_InvalidRowsAreContained ==
    [][/\ \A sheet \in BatchFiles :
             process_transactions(sheet) =>
                 last'.ids = { i + 1 : i \in { j \in 1..Len(sheet) :
                                                 RowError(sheet[j]) # "ok" } }
       /\ transform_and_load =>
             \A r \in raw_source_google :
                 IF RawRowError(r) = "ok"
                 THEN \E e \in expenses' :
                          /\ e.expense_id = ExpenseId(r.id)
                          /\ e.product_name = r.item
                          /\ e.amount = r.price
                 ELSE ExpensesOfId(expenses', ExpenseId(r.id)) =
                          ExpensesOfId(expenses, ExpenseId(r.id))]_vars

\* C22: after split(source, new_name, ids) of expenses of an existing source
\* exactly one label named new_name exists, created when it was absent and
\* kept when it was present, and every expense in ids is associated with it.
C22_SplitCreatesOrReusesLabel ==
    [][\A a \in SplitSources, b \in SplitTargets, ids \in SUBSET ExpenseIds :
          ( /\ split_label(a, b, ids)
            /\ ids # {}
            /\ HasLabel(labels, a)
            /\ ids \subseteq ExpensesOf(expense_labels, _get_label_id(labels, a)) )
          => /\ Cardinality({ l \in labels' : l.name = b }) = 1
             /\ \A l \in labels : l.name = b => l \in labels'
             /\ \A e \in ids :
                   [expense_id |-> e, label_id |-> _get_label_id(labels', b)]
                       \in expense_labels']_vars

\* C23: no step of a pipeline run or of a label lifecycle operation removes
\* an expense: every expense id stored before the step is stored after it.
C23_ExpensesAreNeverDeleted ==
    [][\A e \in expenses : \E f \in expenses' : f.expense_id = e.expense_id]_vars

\* C23 witness: a transform run over a file shorter than an earlier one has
\* left the expense of a row that is no longer in the file.
C23_Witness ==
    /\ last.op \in {"transform_and_load", "main"}
    /\ raw_source_google # {}
    /\ \E e \in expenses :
           \A r \in raw_source_google : ExpenseId(r.id) # e.expense_id

\* C25: every recommendation row that exists before a step exists after it,
\* with the same message and the same related expense.
C25_RecommendationsPersist ==
    [][\A x \in recommendations :
          \E y \in recommendations' :
              /\ y.recommendation_id = x.recommendation_id
              /\ y.message = x.message
              /\ y.related_expense_id = x.related_expense_id]_vars

\* C25 witness: after the generator run of a pipeline run, one recommendation belongs to an
\* expense that the run did not fetch, and one still carries the amount its
\* expense had before it was reloaded with another price.
C25_Witness ==
    /\ last.op = "main"
    /\ \E x \in recommendations : x.related_expense_id \notin last.ids
    /\ \E x \in recommendations, e \in expenses :
           /\ x.related_expense_id = e.expense_id
           /\ e.expense_id \in last.ids
           /\ x.message # Message(e.product_name, e.amount)

\* ceil(n / 4)
CeilQuarter(n) == (n + 3) \div 4

\* C24: a generator run over N stored expenses fetches rows of at most
\* ceil(N / 4) distinct expenses, whatever number of labels and weight rows
\* the expenses have.
C24_AtMostAQuarterOfExpenses ==
    (last.op \in {"generate_recommendations", "main"} /\ last.err = "ok")
    => Cardinality(last.ids) <= CeilQuarter(Cardinality(expenses))

Ended(i) == runs[i].pc \in {<<"done">>, <<"failed">>}

\* C21: when two concurrent pipeline runs have ended, the store holds one
\* expense per expense id, one association per (expense, label), one
\* unmapped row per (raw value, source system) and one recommendation per
\* related expense.
C21_OneRowPerKeyAfterConcurrentRuns ==
    (\A i \in Runs : Ended(i))
    => /\ NoDuplicateExpenseIds(expenses)
       /\ NoDuplicateAssociations(expense_labels)
       /\ \A a, b \in unmapped_categories : SameUnmappedKey(a, b) => a = b
       /\ \A a, b \in recommendations :
             a.related_expense_id = b.related_expense_id => a = b

====
